---- MODULE Spec2Model ----
(***************************************************************************)
(* Request/response pipeline of the go-myanimelist client: request         *)
(* building, transport dispatch, response reading, payload decoding and    *)
(* the resource services built on them.                                     *)
(*                                                                          *)
(* Byte strings are sequences of one-character strings.                     *)
(***************************************************************************)
EXTENDS Integers, Sequences, FiniteSets, TLC

(***************************************************************************)
(* Bounds of the model.                                                     *)
(***************************************************************************)
\* number of fragments a generated response body is concatenated from
MaxParts == 3
\* number of times the rewrite is applied in a row in SpecRewrite
MaxApply == 2
\* number of data entries of a list envelope
MaxData == 2
\* number of pieces appended to the page URL handed to parseOffset
MaxPieces == 3
MaxSet == 2
MaxOptions == 3

(***************************************************************************)
(* Byte-string helpers (package bytes / strings).                           *)
(***************************************************************************)
HasPrefix(s, p) == Len(s) >= Len(p) /\ SubSeq(s, 1, Len(p)) = p

Drop(s, n) == SubSeq(s, n + 1, Len(s))

RECURSIVE Concat(_)
Concat(ss) == IF ss = <<>> THEN <<>> ELSE Head(ss) \o Concat(Tail(ss))

\* bytes.Count: number of non-overlapping occurrences of old in s
RECURSIVE BytesCount(_, _)
BytesCount(s, old) ==
  IF Len(s) < Len(old) THEN 0
  ELSE IF HasPrefix(s, old) THEN 1 + BytesCount(Drop(s, Len(old)), old)
  ELSE BytesCount(Tail(s), old)

\* bytes.Replace(s, old, new, n): the first n non-overlapping occurrences of
\* old, found left to right, are replaced by new; n < 0 means no limit.
RECURSIVE BytesReplace(_, _, _, _)
BytesReplace(s, old, new, n) ==
  IF n = 0 \/ Len(s) < Len(old) THEN s
  ELSE IF HasPrefix(s, old)
       THEN new \o BytesReplace(Drop(s, Len(old)), old, new, IF n < 0 THEN n ELSE n - 1)
  ELSE <<Head(s)>> \o BytesReplace(Tail(s), old, new, n)

(***************************************************************************)
(* The &bull; rewrite of Client.Do.                                         *)
(***************************************************************************)
Bull == <<"&", "b", "u", "l", "l", ";">>
CDataOpen == <<"<", "!", "[", "C", "D", "A", "T", "A", "[">>
CDataClose == <<"]", "]", ">">>
BullCData == CDataOpen \o Bull \o CDataClose

RewriteFirstOnly(b) == BytesReplace(b, Bull, BullCData, 1)

RewriteToLiteralBullet(b) == BytesReplace(b, Bull, CDataOpen \o <<"U+2022">> \o CDataClose, -1)

\* b = bytes.Replace(b, []byte("&bull;"), []byte("<![CDATA[&bull;]]>"), -1)
Rewrite(b) == BytesReplace(b, Bull, BullCData, -1)

(***************************************************************************)
(* encoding/xml as Client.Do uses it: xml.Unmarshal decodes the first       *)
(* element of the document into the target.  Documents of the model hold    *)
(* one element <a> whose content is character data and CDATA sections.      *)
(* The result is [err, val]: err is NoErr or the parse error, val the text  *)
(* of the element.                                                          *)
(***************************************************************************)
NoErr == "nil"
ErrEOF == "EOF"
ErrSyntax == "XML syntax error"

OpenTag == <<"<", "a", ">">>
CloseTag == <<"<", "/", "a", ">">>

\* index of the first occurrence of p in s, 0 when there is none
RECURSIVE IndexFrom(_, _, _)
IndexFrom(s, p, i) ==
  IF i + Len(p) - 1 > Len(s) THEN 0
  ELSE IF SubSeq(s, i, i + Len(p) - 1) = p THEN i
  ELSE IndexFrom(s, p, i + 1)

Index(s, p) == IndexFrom(s, p, 1)

RECURSIVE XmlContent(_, _)
XmlContent(s, acc) ==
  IF s = <<>> THEN [err |-> ErrSyntax, val |-> <<>>]
  ELSE IF HasPrefix(s, CloseTag) THEN [err |-> NoErr, val |-> acc]
  ELSE IF HasPrefix(s, CDataOpen)
       THEN LET rest == Drop(s, Len(CDataOpen))
                k == Index(rest, CDataClose)
            IN IF k = 0 THEN [err |-> ErrSyntax, val |-> <<>>]
               ELSE XmlContent(Drop(rest, k - 1 + Len(CDataClose)),
                               acc \o SubSeq(rest, 1, k - 1))
  ELSE IF Head(s) \in {"&", "<"} THEN [err |-> ErrSyntax, val |-> <<>>]
  ELSE XmlContent(Tail(s), acc \o <<Head(s)>>)

\* the decoder skips what precedes the first element; without an element
\* the document ends and the decoder reports io.EOF
RECURSIVE XmlUnmarshal(_)
XmlUnmarshal(s) ==
  IF s = <<>> THEN [err |-> ErrEOF, val |-> <<>>]
  ELSE IF HasPrefix(s, OpenTag) THEN XmlContent(Drop(s, Len(OpenTag)), <<>>)
  ELSE IF HasPrefix(s, CDataOpen)
       THEN LET rest == Drop(s, Len(CDataOpen))
                k == Index(rest, CDataClose)
            IN IF k = 0 THEN [err |-> ErrSyntax, val |-> <<>>]
               ELSE XmlUnmarshal(Drop(rest, k - 1 + Len(CDataClose)))
  ELSE IF Head(s) \in {"&", "<"} THEN [err |-> ErrSyntax, val |-> <<>>]
  ELSE XmlUnmarshal(Tail(s))

(***************************************************************************)
(* URL strings (package net/url, strconv).  A URL string is a sequence of   *)
(* atoms: a character the parsing code looks at ("?", "&", "=", "+", "-",   *)
(* a digit, a percent escape, a control character) or a piece of text it    *)
(* passes over as a whole.                                                  *)
(***************************************************************************)
Ctl == "<LF>"
BadEscape == "%zz"
Escaped1 == "%31"
Digits == <<"0", "1", "2", "3", "4", "5", "6", "7", "8", "9">>
DigitSet == {Digits[i] : i \in 1..10}
DigitVal(c) == (CHOOSE i \in 1..10 : Digits[i] = c) - 1

\* url.Parse: a control character anywhere, or an invalid percent escape in
\* the part before the query, is an error; the query is kept raw.
UrlParse(u) ==
  LET q == Index(u, <<"?">>)
      path == IF q = 0 THEN u ELSE SubSeq(u, 1, q - 1)
      rawq == IF q = 0 THEN <<>> ELSE Drop(u, q)
  IN IF (\E i \in 1..Len(u) : u[i] = Ctl) \/ (\E i \in 1..Len(path) : path[i] = BadEscape)
     THEN [err |-> TRUE, Path |-> <<>>, RawQuery |-> <<>>]
     ELSE [err |-> FALSE, Path |-> path, RawQuery |-> rawq]

\* url.QueryUnescape
\* the characters url.QueryEscape escapes, each with its escape
EscapeTable ==
  << [raw |-> " ", esc |-> "+"], [raw |-> "<", esc |-> "%3C"], [raw |-> ">", esc |-> "%3E"],
     [raw |-> "/", esc |-> "%2F"], [raw |-> "&", esc |-> "%26"], [raw |-> ";", esc |-> "%3B"],
     [raw |-> "=", esc |-> "%3D"], [raw |-> "+", esc |-> "%2B"] >>

RECURSIVE UnescapeAtoms(_)
UnescapeAtoms(s) ==
  IF s = <<>> THEN <<>>
  ELSE <<(IF Head(s) = Escaped1 THEN "1"
          ELSE IF \E i \in 1..Len(EscapeTable) : EscapeTable[i].esc = Head(s)
          THEN EscapeTable[CHOOSE i \in 1..Len(EscapeTable) : EscapeTable[i].esc = Head(s)].raw
          ELSE Head(s))>>
       \o UnescapeAtoms(Tail(s))

\* url.QueryEscape
RECURSIVE QueryEscape(_)
QueryEscape(s) ==
  IF s = <<>> THEN <<>>
  ELSE <<(IF \E i \in 1..Len(EscapeTable) : EscapeTable[i].raw = Head(s)
          THEN EscapeTable[CHOOSE i \in 1..Len(EscapeTable) : EscapeTable[i].raw = Head(s)].esc
          ELSE Head(s))>>
       \o QueryEscape(Tail(s))

QueryUnescape(s) ==
  IF \E i \in 1..Len(s) : s[i] = BadEscape
  THEN [err |-> TRUE, s |-> <<>>]
  ELSE [err |-> FALSE, s |-> UnescapeAtoms(s)]

\* url.ParseQuery as URL.Query uses it: the pairs between "&", each cut at
\* its first "="; an empty pair or one that fails to unescape is dropped.
RECURSIVE ParseQuery(_)
ParseQuery(q) ==
  IF q = <<>> THEN <<>>
  ELSE LET a == Index(q, <<"&">>)
           pair == IF a = 0 THEN q ELSE SubSeq(q, 1, a - 1)
           rest == IF a = 0 THEN <<>> ELSE Drop(q, a)
           e == Index(pair, <<"=">>)
           key == QueryUnescape(IF e = 0 THEN pair ELSE SubSeq(pair, 1, e - 1))
           val == QueryUnescape(IF e = 0 THEN <<>> ELSE Drop(pair, e))
       IN IF pair = <<>> \/ key.err \/ val.err
          THEN ParseQuery(rest)
          ELSE <<[key |-> key.s, val |-> val.s]>> \o ParseQuery(rest)

\* url.Values.Get: the first value of the key, "" when there is none
RECURSIVE ValuesGet(_, _)
ValuesGet(pairs, key) ==
  IF pairs = <<>> THEN <<>>
  ELSE IF Head(pairs).key = key THEN Head(pairs).val
  ELSE ValuesGet(Tail(pairs), key)

RECURSIVE DigitsValue(_, _)
DigitsValue(s, acc) ==
  IF s = <<>> THEN acc ELSE DigitsValue(Tail(s), acc * 10 + DigitVal(Head(s)))

\* strconv.Atoi: an optional sign, then one or more decimal digits
Atoi(s) ==
  LET signed == s # <<>> /\ Head(s) \in {"+", "-"}
      ds == IF signed THEN Tail(s) ELSE s
  IN IF ds = <<>> \/ (\E i \in 1..Len(ds) : ds[i] \notin DigitSet)
     THEN [err |-> TRUE, n |-> 0]
     ELSE [err |-> FALSE,
           n |-> IF signed /\ Head(s) = "-" THEN 0 - DigitsValue(ds, 0) ELSE DigitsValue(ds, 0)]

\* strconv.Itoa / the %d verb of fmt.Sprintf
RECURSIVE ItoaNat(_)
ItoaNat(n) == IF n < 10 THEN <<Digits[n + 1]>> ELSE ItoaNat(n \div 10) \o <<Digits[(n % 10) + 1]>>

Itoa(n) == IF n < 0 THEN <<"-">> \o ItoaNat(0 - n) ELSE ItoaNat(n)

(***************************************************************************)
(* List pagination.                                                         *)
(***************************************************************************)
ErrInvalidPageURL == "parsing URL"
ErrInvalidOffset == "parsing offset"
OffsetKey == <<"offset">>

parseOffsetIgnoringAtoiError(urlStr) ==
  LET u == UrlParse(urlStr)
  IN IF u.err THEN [n |-> 0, err |-> ErrInvalidPageURL]
     ELSE [n |-> Atoi(ValuesGet(ParseQuery(u.RawQuery), OffsetKey)).n, err |-> NoErr]

parseOffset(urlStr) ==
  LET u == UrlParse(urlStr)
  IN IF u.err THEN [n |-> 0, err |-> ErrInvalidPageURL]
     ELSE LET offset == Atoi(ValuesGet(ParseQuery(u.RawQuery), OffsetKey))
          IN IF offset.err THEN [n |-> 0, err |-> ErrInvalidOffset]
             ELSE [n |-> offset.n, err |-> NoErr]

(***************************************************************************)
(* Errors and responses.  An error is a record whose class tells which      *)
(* fmt.Errorf (or which callee) produced it; the other fields are what the  *)
(* message is formatted from.                                               *)
(***************************************************************************)
NilErr == [class |-> NoErr, method |-> "", url |-> <<>>, status |-> 0, text |-> <<>>, cause |-> NoErr]
ErrTransport == [NilErr EXCEPT !.class = "TransportError"]
ErrBuild == [NilErr EXCEPT !.class = "InvalidURL"]
ErrRead == [NilErr EXCEPT !.class = "cannot read response body", !.cause = "read error"]
ErrRequestFailed(rq, code, data) ==
  [NilErr EXCEPT !.class = "RequestFailed", !.method = rq.method, !.url = rq.url,
                 !.status = code, !.text = data]
ErrDecode(cause) == [NilErr EXCEPT !.class = "cannot decode", !.cause = cause]
ErrPaging(which, e) == [NilErr EXCEPT !.class = e, !.cause = which]

\* type Response struct { *http.Response; Body []byte; NextOffset, PrevOffset int }
NilResp == [nil |-> TRUE, StatusCode |-> 0, Body |-> <<>>, NextOffset |-> 0, PrevOffset |-> 0]
NewResp(code) == [NilResp EXCEPT !.nil = FALSE, !.StatusCode = code]


(***************************************************************************)
(* Response reader.                                                         *)
(***************************************************************************)
NoFail == -1

ReadNothing(data, failAt) == [n |-> 0, end |-> "open", err |-> FALSE]

\* ioutil.ReadAll(r.Body): reads until the stream ends, at EOF or at the
\* stream's read error after failAt bytes
ReadAll(data, failAt) ==
  IF failAt = NoFail
  THEN [n |-> Len(data), end |-> "eof", err |-> FALSE]
  ELSE [n |-> failAt, end |-> "failed", err |-> TRUE]

StatusFailsOffByOne(code) == code <= 200 \/ code > 299

\* r.StatusCode < 200 || r.StatusCode > 299
StatusFails(code) == code < 200 \/ code > 299

readResponse(rq, code, data, failAt) ==
  LET resp == NewResp(code)
      rd == ReadAll(data, failAt)
  IN IF rd.err THEN [resp |-> resp, err |-> ErrRead]
     ELSE IF StatusFails(code)
          THEN [resp |-> [resp EXCEPT !.Body = data], err |-> ErrRequestFailed(rq, code, data)]
     ELSE [resp |-> [resp EXCEPT !.Body = data], err |-> NilErr]

(***************************************************************************)
(* JSON documents of the current API: the list envelope                     *)
(* {data: [{node: X}], paging: {next, previous}}.  A body is the envelope   *)
(* written out as bytes; json.Unmarshal reads it back or reports an error.  *)
(***************************************************************************)
ErrJSON == "invalid JSON"
ZeroDoc == [Data |-> <<>>, Next |-> <<>>, Previous |-> <<>>]

RECURSIVE JoinIds(_)
JoinIds(data) ==
  IF data = <<>> THEN <<>>
  ELSE IF Len(data) = 1 THEN Itoa(Head(data).node)
  ELSE Itoa(Head(data).node) \o <<",">> \o JoinIds(Tail(data))

JsonMarshal(d) ==
  <<"{">> \o JoinIds(d.Data) \o <<"|">> \o d.Next \o <<"|">> \o d.Previous \o <<"}">>

RECURSIVE SplitIds(_)
SplitIds(s) ==
  IF s = <<>> THEN [err |-> FALSE, ids |-> <<>>]
  ELSE LET c == Index(s, <<",">>)
           first == Atoi(IF c = 0 THEN s ELSE SubSeq(s, 1, c - 1))
           rest == IF c = 0 THEN [err |-> FALSE, ids |-> <<>>] ELSE SplitIds(Drop(s, c))
       IN IF first.err \/ rest.err \/ (c # 0 /\ Drop(s, c) = <<>>)
          THEN [err |-> TRUE, ids |-> <<>>]
          ELSE [err |-> FALSE, ids |-> <<[node |-> first.n]>> \o rest.ids]

JsonUnmarshal(b) ==
  LET bad == [err |-> ErrJSON, val |-> ZeroDoc]
  IN IF Len(b) < 2 \/ Head(b) # "{" \/ b[Len(b)] # "}" THEN bad
     ELSE LET inner == SubSeq(b, 2, Len(b) - 1)
              p1 == Index(inner, <<"|">>)
              afterIds == Drop(inner, p1)
              p2 == Index(afterIds, <<"|">>)
              ids == SplitIds(SubSeq(inner, 1, p1 - 1))
          IN IF p1 = 0 \/ p2 = 0 \/ ids.err THEN bad
             ELSE [err |-> NoErr,
                   val |-> [Data |-> ids.ids,
                            Next |-> SubSeq(afterIds, 1, p2 - 1),
                            Previous |-> Drop(afterIds, p2)]]

(***************************************************************************)
(* Client.Do after the transport has returned a response.                   *)
(***************************************************************************)
Legacy == "legacy"
Current == "current"

ZeroTarget == [set |-> FALSE, xml |-> <<>>, json |-> ZeroDoc]

\* the payload decoder of the API generation; the legacy one rewrites
\* &bull; first.  input is what the parser is handed.
Decode(gen, b) ==
  IF gen = Legacy
  THEN LET x == Rewrite(b)
           r == XmlUnmarshal(x)
       IN [input |-> x, err |-> r.err, val |-> [set |-> r.err = NoErr, xml |-> r.val, json |-> ZeroDoc]]
  ELSE LET r == JsonUnmarshal(b)
       IN [input |-> b, err |-> r.err, val |-> [set |-> r.err = NoErr, xml |-> <<>>, json |-> r.val]]

ShouldDecodeAlways(hasV, b) == TRUE

\* if v != nil  (the test on len(response.Body) is commented out)
ShouldDecode(hasV, b) == hasV

DecodeFailureSwallowed(resp, cause) == [resp |-> resp, err |-> NilErr]

\* return response, fmt.Errorf("cannot decode: %v", err)
DecodeFailure(resp, cause) == [resp |-> resp, err |-> ErrDecode(cause)]

\* defer resp.Body.Close()
BodyClose(n) == n + 1

\* the values Do computes once c.client.Do(req) has returned a response
Do(rq, hasV, gen, code, data, failAt) ==
  LET rr == readResponse(rq, code, data, failAt)
      none == [called |-> FALSE, input |-> <<>>, failed |-> FALSE, cause |-> NoErr, val |-> ZeroTarget]
  IN IF rr.err # NilErr THEN [resp |-> rr.resp, err |-> rr.err, dec |-> none]
     ELSE IF ShouldDecode(hasV, rr.resp.Body)
          THEN LET d == Decode(gen, rr.resp.Body)
                   dec == [called |-> TRUE, input |-> d.input, failed |-> d.err # NoErr,
                           cause |-> d.err, val |-> d.val]
               IN IF d.err # NoErr
                  THEN [resp |-> DecodeFailure(rr.resp, d.err).resp,
                        err |-> DecodeFailure(rr.resp, d.err).err, dec |-> dec]
                  ELSE [resp |-> rr.resp, err |-> NilErr, dec |-> dec]
     ELSE [resp |-> rr.resp, err |-> NilErr, dec |-> none]

(***************************************************************************)
(* The legacy payload: an AnimeEntry marshalled to XML.  A string is a      *)
(* sequence of atoms (words and single characters); the XML text is a       *)
(* sequence of atoms too: "<", "/", ">", names, and the atoms of the values. *)
(***************************************************************************)
\* the fields of AnimeEntry in declaration order with their xml tags
EntryFields ==
  << [key |-> "Episode", name |-> "episode", omitempty |-> FALSE, kind |-> "int"],
     [key |-> "Status", name |-> "status", omitempty |-> TRUE, kind |-> "string"],
     [key |-> "Score", name |-> "score", omitempty |-> FALSE, kind |-> "int"],
     [key |-> "DownloadedEpisodes", name |-> "downloaded_episodes", omitempty |-> TRUE, kind |-> "int"],
     [key |-> "StorageType", name |-> "storage_type", omitempty |-> TRUE, kind |-> "int"],
     [key |-> "StorageValue", name |-> "storage_value", omitempty |-> TRUE, kind |-> "int"],
     [key |-> "TimesRewatched", name |-> "times_rewatched", omitempty |-> FALSE, kind |-> "int"],
     [key |-> "RewatchValue", name |-> "rewatch_value", omitempty |-> TRUE, kind |-> "int"],
     [key |-> "DateStart", name |-> "date_start", omitempty |-> TRUE, kind |-> "string"],
     [key |-> "DateFinish", name |-> "date_finish", omitempty |-> TRUE, kind |-> "string"],
     [key |-> "Priority", name |-> "priority", omitempty |-> TRUE, kind |-> "int"],
     [key |-> "EnableDiscussion", name |-> "enable_discussion", omitempty |-> TRUE, kind |-> "int"],
     [key |-> "EnableRewatching", name |-> "enable_rewatching", omitempty |-> FALSE, kind |-> "int"],
     [key |-> "Comments", name |-> "comments", omitempty |-> FALSE, kind |-> "string"],
     [key |-> "FansubGroup", name |-> "fansub_group", omitempty |-> TRUE, kind |-> "string"],
     [key |-> "Tags", name |-> "tags", omitempty |-> TRUE, kind |-> "string"] >>

EntryKeys == {EntryFields[i].key : i \in 1..Len(EntryFields)}
FieldOf(k) == EntryFields[CHOOSE i \in 1..Len(EntryFields) : EntryFields[i].key = k]
ZeroOf(kind) == IF kind = "int" THEN 0 ELSE <<>>

\* AnimeEntry{}: every field at the zero value of its type
ZeroEntry == [k \in EntryKeys |-> ZeroOf(FieldOf(k).kind)]

\* the characters xml.EscapeText replaces, each with its entity
EntityTable ==
  << [raw |-> "&", ent |-> "amp"], [raw |-> "<", ent |-> "lt"], [raw |-> ">", ent |-> "gt"] >>

EscapeTextNothing(s) == s

\* xml.EscapeText
RECURSIVE EscapeText(_)
EscapeText(s) ==
  IF s = <<>> THEN <<>>
  ELSE (IF \E i \in 1..Len(EntityTable) : EntityTable[i].raw = Head(s)
        THEN <<"&", EntityTable[CHOOSE i \in 1..Len(EntityTable) : EntityTable[i].raw = Head(s)].ent, ";">>
        ELSE <<Head(s)>>)
       \o EscapeText(Tail(s))

StartElement(name) == <<"<", name, ">">>
EndElement(name) == <<"<", "/", name, ">">>

\* one field as xml.Marshal writes it: a field tagged omitempty is left out
\* when it holds its zero value, any other field is always written
MarshalField(f, val) ==
  IF f.omitempty /\ val = ZeroOf(f.kind) THEN <<>>
  ELSE StartElement(f.name)
       \o (IF f.kind = "int" THEN Itoa(val) ELSE EscapeText(val))
       \o EndElement(f.name)

RECURSIVE MarshalFields(_, _)
MarshalFields(e, i) ==
  IF i > Len(EntryFields) THEN <<>>
  ELSE MarshalField(EntryFields[i], e[EntryFields[i].key]) \o MarshalFields(e, i + 1)

\* xml.Marshal(entry): XMLName gives the element its name
XmlMarshal(e) == StartElement("entry") \o MarshalFields(e, 1) \o EndElement("entry")

\* v := url.Values{}; if body != nil { v.Set("data", string(data)) }; v.Encode()
NoEntry == [nil |-> TRUE]
FormEncode(entry) ==
  IF entry = NoEntry THEN <<>> ELSE <<"data", "=">> \o QueryEscape(XmlMarshal(entry))

\* the text of an element as the XML decoder hands it on: each entity
\* replaced by its character
RECURSIVE UnescapeText(_)
UnescapeText(s) ==
  IF s = <<>> THEN <<>>
  ELSE IF Len(s) >= 3 /\ s[1] = "&" /\ s[3] = ";"
          /\ (\E i \in 1..Len(EntityTable) : EntityTable[i].ent = s[2])
       THEN <<EntityTable[CHOOSE i \in 1..Len(EntityTable) : EntityTable[i].ent = s[2]].raw>>
            \o UnescapeText(Drop(s, 3))
       ELSE <<Head(s)>> \o UnescapeText(Tail(s))

HasField(name) == \E i \in 1..Len(EntryFields) : EntryFields[i].name = name
FieldNamed(name) == EntryFields[CHOOSE i \in 1..Len(EntryFields) : EntryFields[i].name = name]

\* xml.Unmarshal into an AnimeEntry, after the start tag of the entry: each
\* child element is stored in the field its name is the tag of; a number
\* that does not parse, or text that is not well formed, is an error
RECURSIVE UnmarshalFields(_, _)
UnmarshalFields(s, e) ==
  IF s = EndElement("entry") THEN [err |-> NoErr, entry |-> e]
  ELSE IF Len(s) < 3 \/ s[1] # "<" \/ s[2] = "/" \/ s[3] # ">"
  THEN [err |-> ErrSyntax, entry |-> NoEntry]
  ELSE LET name == s[2]
           rest == Drop(s, 3)
           close == Index(rest, EndElement(name))
           text == SubSeq(rest, 1, close - 1)
           after == Drop(rest, close - 1 + Len(EndElement(name)))
       IN IF close = 0 \/ (\E i \in 1..Len(text) : text[i] \in {"<", ">"})
          THEN [err |-> ErrSyntax, entry |-> NoEntry]
          ELSE IF ~HasField(name) THEN UnmarshalFields(after, e)
          ELSE IF FieldNamed(name).kind = "int"
               THEN IF Atoi(text).err THEN [err |-> ErrSyntax, entry |-> NoEntry]
                    ELSE UnmarshalFields(after, [e EXCEPT ![FieldNamed(name).key] = Atoi(text).n])
               ELSE UnmarshalFields(after, [e EXCEPT ![FieldNamed(name).key] = UnescapeText(text)])

\* xml.Unmarshal(data, &entry) with entry an AnimeEntry
XmlUnmarshalEntry(s) ==
  IF HasPrefix(s, StartElement("entry"))
  THEN UnmarshalFields(Drop(s, Len(StartElement("entry"))), ZeroEntry)
  ELSE [err |-> ErrSyntax, entry |-> NoEntry]

\* the receiver of a legacy request: the form field data of the body,
\* decoded as an entry
DecodeBody(b) == XmlUnmarshalEntry(ValuesGet(ParseQuery(b), <<"data">>))

(***************************************************************************)
(* Request builder and endpoints.                                           *)
(***************************************************************************)
Host == "http://myanimelist.net/"
defaultBaseURL == <<Host>>
defaultUserAgent == "api-indiv-2D4068FCF43349DA30D8D4E5667883C2"
updateMangaURL == <<Host, "api/", "manga", "list/", "update", "/">>
addMangaURL == <<Host, "api/", "manga", "list/", "add", "/">>
deleteMangaURL == <<Host, "api/", "anime", "list/", "delete", "/">>
updateAnimeURL == <<Host, "api/", "anime", "list/", "update", "/">>
addAnimeURL == <<Host, "api/", "anime", "list/", "add", "/">>
deleteAnimeURL == <<Host, "api/", "anime", "list/", "delete", "/">>
searchAnimeURL == <<Host, "api/anime/search.xml", "?", "q", "=">>

\* NewClient: the default user agent and no credentials
NewClient == [UserAgent |-> defaultUserAgent, Username |-> "", Password |-> ""]

\* c.BaseURL.ResolveReference(rel): an absolute reference replaces the base
ResolveReference(base, rel) == IF rel # <<>> /\ Head(rel) = Host THEN rel ELSE base \o rel

\* a header is the list of its values, as http.Header keeps it
NoHeader == [UserAgent |-> <<>>, Authorization |-> <<>>, ContentType |-> <<>>]
NoReq == [method |-> "", url |-> <<>>, body |-> <<>>, header |-> NoHeader]

\* req.SetBasicAuth(username, password)
BasicAuth(username, password) == [scheme |-> "Basic", username |-> username, password |-> password]

UserAgentHeaderAlways(c) == <<c.UserAgent>>

\* if c.UserAgent != "" { req.Header.Add("User-Agent", c.UserAgent) }
UserAgentHeader(c) == IF c.UserAgent # "" THEN <<c.UserAgent>> ELSE <<>>

\* if c.Username != "" { req.SetBasicAuth(c.Username, c.Password) }
AuthorizationHeader(c) ==
  IF c.Username # "" THEN <<BasicAuth(c.Username, c.Password)>> ELSE <<>>

\* Client.NewRequest: the method, the resolved URL, the form-encoded body
\* and the headers the client's configuration calls for
NewRequest(c, method, urlStr, entry) ==
  IF UrlParse(urlStr).err
  THEN [req |-> NoReq, err |-> ErrBuild]
  ELSE [req |-> [method |-> method,
                 url |-> ResolveReference(defaultBaseURL, urlStr),
                 body |-> FormEncode(entry),
                 header |-> [UserAgent |-> UserAgentHeader(c),
                             Authorization |-> AuthorizationHeader(c),
                             ContentType |-> <<>>]],
        err |-> NilErr]

FormContentType == "application/x-www-form-urlencoded"

legacyURLOfFirstId(endpoint, id) == endpoint \o Itoa(55) \o <<".xml">>

\* fmt.Sprintf("%s%d.xml", endpoint, id)
legacyURL(endpoint, id) == endpoint \o Itoa(id) \o <<".xml">>

\* Client.post up to c.Do: the request NewRequest built, with the
\* Content-Type header added
postRequest(c, endpoint, id, entry) ==
  LET b == NewRequest(c, "POST", legacyURL(endpoint, id), entry)
  IN IF b.err # NilErr THEN b
     ELSE [req |-> [b.req EXCEPT !.header.ContentType = @ \o <<FormContentType>>],
           err |-> NilErr]

\* Client.delete up to c.Do
deleteRequest(c, endpoint, id) == NewRequest(c, "DELETE", legacyURL(endpoint, id), NoEntry)

\* the endpoint constant of each legacy list operation of each resource
Endpoint(T, operation) ==
  CASE T = "anime" /\ operation = "add" -> addAnimeURL
    [] T = "anime" /\ operation = "update" -> updateAnimeURL
    [] T = "anime" /\ operation = "delete" -> deleteAnimeURL
    [] T = "manga" /\ operation = "add" -> addMangaURL
    [] T = "manga" /\ operation = "update" -> updateMangaURL
    [] T = "manga" /\ operation = "delete" -> deleteMangaURL

\* url.Values: a function from the keys present to the list of their values
EmptyValues == [k \in {} |-> <<>>]
ValuesAdd(v, key, val) ==
  [k \in DOMAIN v \cup {key} |->
     IF k = key THEN (IF key \in DOMAIN v THEN v[key] ELSE <<>>) \o <<val>> ELSE v[k]]

ValuesSetKeepsOld(v, key, val) == ValuesAdd(v, key, val)

\* url.Values.Set: the key is left with the one value
ValuesSet(v, key, val) == [k \in DOMAIN v \cup {key} |-> IF k = key THEN <<val>> ELSE v[k]]

\* URL.Query(): the pairs of the raw query gathered by key
RECURSIVE ValuesOf(_, _)
ValuesOf(pairs, v) ==
  IF pairs = <<>> THEN v
  ELSE ValuesOf(Tail(pairs), ValuesAdd(v, Head(pairs).key, Head(pairs).val))

\* the keys the package writes, in the order url.Values.Encode sorts them
KeyOrder ==
  << <<"is_rereading">>, <<"limit">>, <<"num_chapters_read">>, <<"num_times_reread">>,
     <<"num_volumes_read">>, <<"offset">>, <<"q">>, <<"reread_value">>, <<"status">> >>

RECURSIVE EncodeKey(_, _)
EncodeKey(key, vals) ==
  IF vals = <<>> THEN <<>>
  ELSE <<[key |-> key, val |-> Head(vals)]>> \o EncodeKey(key, Tail(vals))

RECURSIVE SortedPairs(_, _)
SortedPairs(v, i) ==
  IF i > Len(KeyOrder) THEN <<>>
  ELSE (IF KeyOrder[i] \in DOMAIN v THEN EncodeKey(KeyOrder[i], v[KeyOrder[i]]) ELSE <<>>)
       \o SortedPairs(v, i + 1)

RECURSIVE JoinPairs(_)
JoinPairs(pairs) ==
  IF pairs = <<>> THEN <<>>
  ELSE QueryEscape(Head(pairs).key) \o <<"=">> \o QueryEscape(Head(pairs).val)
       \o (IF Tail(pairs) = <<>> THEN <<>> ELSE <<"&">> \o JoinPairs(Tail(pairs)))

\* url.Values.Encode
ValuesEncode(v) == JoinPairs(SortedPairs(v, 1))

\* URL.String() of an endpoint [Path, RawQuery]
URLString(u) == u.Path \o (IF u.RawQuery # <<>> THEN <<"?">> \o u.RawQuery ELSE <<>>)

QueryKey == <<"q">>

\* AnimeService.Search: v := s.SearchEndpoint.Query(); v.Set("q", query)
SearchValues(rawQuery, query) == ValuesSet(ValuesOf(ParseQuery(rawQuery), EmptyValues), QueryKey, query)

\* the search endpoint a new service starts with
NewSearchEndpoint ==
  [Path |-> UrlParse(searchAnimeURL).Path, RawQuery |-> UrlParse(searchAnimeURL).RawQuery]

\* fmt.Sprintf("manga/%d/my_list_status", mangaID)
myListStatusURL(id) == <<"manga/">> \o Itoa(id) \o <<"/my_list_status">>

\* fmt.Sprintf("anime/%d", id)
detailsURL(id) == <<"anime/">> \o Itoa(id)

\* fmt.Sprintf("users/%s/mangalist", username)
mangaListURL(username) == <<"users/">> \o username \o <<"/mangalist">>

\* the query string AnimeService.List encodes: url.Values.Encode sorts by key
listURL(query, limit, offset) ==
  <<"anime", "?">>
  \o (IF limit # 0 THEN <<"limit", "=">> \o Itoa(limit) \o <<"&">> ELSE <<>>)
  \o (IF offset # 0 THEN <<"offset", "=">> \o Itoa(offset) \o <<"&">> ELSE <<>>)
  \o <<"q", "=">> \o query

(***************************************************************************)
(* List and update options.  An option is [type, val]; applying it writes   *)
(* one parameter into the url.Values handed to it.                          *)
(***************************************************************************)
\* strconv.FormatBool
FormatBool(b) == IF b THEN <<"true">> ELSE <<"false">>

\* MangaStatus.mangaListApply / updateMyMangaListStatusApply
ApplyMangaStatus(s, v) == ValuesSet(v, <<"status">>, <<s>>)

\* IsRereading.updateMyMangaListStatusApply
ApplyIsRereading(r, v) == ValuesSet(v, <<"is_rereading">>, FormatBool(r))

\* NumVolumesRead.updateMyMangaListStatusApply
ApplyNumVolumesRead(n, v) == ValuesSet(v, <<"num_volumes_read">>, Itoa(n))

ApplyNumChaptersReadToVolumes(n, v) == ValuesSet(v, <<"num_volumes_read">>, Itoa(n))

\* NumChaptersRead.updateMyMangaListStatusApply
ApplyNumChaptersRead(n, v) == ValuesSet(v, <<"num_chapters_read">>, Itoa(n))

\* NumTimesReread.updateMyMangaListStatusApply
ApplyNumTimesReread(n, v) == ValuesSet(v, <<"num_times_reread">>, Itoa(n))

\* RereadValue.updateMyMangaListStatusApply
ApplyRereadValue(r, v) == ValuesSet(v, <<"reread_value">>, Itoa(r))

\* o.updateMyMangaListStatusApply(v): the method of the option's type
ApplyOption(o, v) ==
  CASE o.type = "MangaStatus" -> ApplyMangaStatus(o.val, v)
    [] o.type = "IsRereading" -> ApplyIsRereading(o.val, v)
    [] o.type = "NumVolumesRead" -> ApplyNumVolumesRead(o.val, v)
    [] o.type = "NumChaptersRead" -> ApplyNumChaptersRead(o.val, v)
    [] o.type = "NumTimesReread" -> ApplyNumTimesReread(o.val, v)
    [] o.type = "RereadValue" -> ApplyRereadValue(o.val, v)

(***************************************************************************)
(* What each operation returns once Do has returned [resp, err].            *)
(* A return value is [result, resp, err]; operations without a typed        *)
(* result leave result nil.                                                 *)
(***************************************************************************)
NoResult == [nil |-> TRUE, items |-> <<>>, obj |-> ZeroTarget]
Result(items, obj) == [nil |-> FALSE, items |-> items, obj |-> obj]
Return(result, resp, err) == [result |-> result, resp |-> resp, err |-> err]

\* Client.post after c.Do(req, nil)
post(do) ==
  IF do.err # NilErr THEN Return(NoResult, NilResp, do.err)
  ELSE Return(NoResult, do.resp, NilErr)

\* Client.delete after c.Do(req, nil)
delete(do) ==
  IF do.err # NilErr THEN Return(NoResult, NilResp, do.err)
  ELSE Return(NoResult, do.resp, NilErr)

\* Client.query after c.Do(req, result)
query(do) == Return(NoResult, do.resp, do.err)

\* AnimeService.Search after s.client.get
Search(do, t) ==
  IF query(do).err # NilErr THEN Return(NoResult, query(do).resp, query(do).err)
  ELSE Return(Result(<<>>, t), query(do).resp, NilErr)

\* MangaService.UpdateMyListStatus after s.client.Do(ctx, req, m)
UpdateMyListStatus(do, t) ==
  IF do.err # NilErr THEN Return(NoResult, do.resp, do.err)
  ELSE Return(Result(<<>>, t), do.resp, NilErr)

\* MangaService.DeleteMyListItem after s.client.Do(ctx, req, nil)
DeleteMyListItem(do) == Return(NoResult, do.resp, do.err)

\* AnimeService.Details after s.client.Do(ctx, req, a)
Details(do, t) ==
  IF do.err # NilErr THEN Return(NoResult, do.resp, do.err)
  ELSE Return(Result(<<>>, t), do.resp, NilErr)

FlattenDropsLast(data) == [i \in 1..(Len(data) - 1) |-> data[i].node]

\* for _, d := range list.Data { anime = append(anime, d.Anime) }
RECURSIVE Flatten(_)
Flatten(data) == IF data = <<>> THEN <<>> ELSE <<Head(data).node>> \o Flatten(Tail(data))

ListKeepsItemsOnError(do, t) ==
  LET prev == parseOffset(t.json.Previous)
      next == parseOffset(t.json.Next)
  IN Return(Result(Flatten(t.json.Data), ZeroTarget), do.resp,
            IF do.err # NilErr THEN do.err
            ELSE IF t.json.Previous # <<>> /\ prev.err # NoErr THEN ErrPaging("previous", prev.err)
            ELSE IF t.json.Next # <<>> /\ next.err # NoErr THEN ErrPaging("next", next.err)
            ELSE NilErr)

\* AnimeService.List after s.client.Do(ctx, req, list)
List(do, t) ==
  IF do.err # NilErr THEN Return(NoResult, do.resp, do.err)
  ELSE LET list == t.json
           prev == parseOffset(list.Previous)
           next == parseOffset(list.Next)
           resp1 == IF list.Previous # <<>> THEN [do.resp EXCEPT !.PrevOffset = prev.n] ELSE do.resp
           resp2 == IF list.Next # <<>> THEN [resp1 EXCEPT !.NextOffset = next.n] ELSE resp1
       IN IF list.Previous # <<>> /\ prev.err # NoErr
          THEN Return(NoResult, do.resp, ErrPaging("previous", prev.err))
          ELSE IF list.Next # <<>> /\ next.err # NoErr
               THEN Return(NoResult, resp1, ErrPaging("next", next.err))
          ELSE Return(Result(Flatten(list.Data), ZeroTarget), resp2, NilErr)

\* Client.mangaList after Do: the decoded envelope with the response
mangaList(do, t) == Return(Result(<<>>, t), do.resp, do.err)

\* UserService.MangaList after s.client.mangaList
MangaList(do, t) ==
  IF mangaList(do, t).err # NilErr THEN Return(NoResult, mangaList(do, t).resp, mangaList(do, t).err)
  ELSE Return(Result(mangaList(do, t).result.obj.json.Data, ZeroTarget), mangaList(do, t).resp, NilErr)

(***************************************************************************)
(* Inputs.                                                                  *)
(***************************************************************************)
StatusCodes == {199, 200, 299, 300, 404}
Ids == {55, 967}
NodeIds == {967, 1356}
Queries == {<<"bebop">>, <<"query">>}
Usernames == {<<"nstratos">>, <<BadEscape>>}
Limits == {0, 5}
BadEndpoint == <<Host, BadEscape>>
Resources == {"anime", "manga"}

\* AnimeEntry{...}: the fields not named hold their zero value
EntryWith(k, val) == [ZeroEntry EXCEPT ![k] = val]
Entries ==
  { EntryWith("Status", <<"watching">>),
    EntryWith("Status", <<"onhold">>),
    [ZeroEntry EXCEPT !["Status"] = <<"completed">>, !["Score"] = 8,
                      !["Comments"] = <<"a", "<", "b">>] }

Deleted == <<"D", "e", "l", "e", "t", "e", "d">>
XmlBodies ==
  { <<>>,
    Deleted,
    OpenTag \o <<"A">> \o CloseTag,
    OpenTag \o <<"A">> \o Bull \o <<"B">> \o CloseTag,
    OpenTag \o Bull \o Bull \o CloseTag,
    OpenTag \o <<"A", "&", "B">> \o CloseTag,
    OpenTag \o <<"A">>,
    <<"A">> \o Bull \o <<"B">>,
    OpenTag \o BullCData \o CloseTag,
    OpenTag \o <<"&", "b", "u", "l", ";">> \o Bull \o CloseTag }

PageBase == "https://api.myanimelist.net/v2/anime"
PageURLs ==
  { <<>>,
    <<PageBase, "?", "offset", "=", "1", "2">>,
    <<PageBase, "?", "limit", "=", "5", "&", "offset", "=", "4">>,
    <<PageBase, "?", "limit", "=", "5">>,
    <<PageBase, BadEscape, "?", "offset", "=", "4">> }

SeqsUpTo(S, n) == UNION {[1..k -> S] : k \in 0..n}

JsonDocs ==
  {[Data |-> d, Next |-> nx, Previous |-> pv] :
     d \in SeqsUpTo({[node |-> i] : i \in NodeIds}, MaxData), nx \in PageURLs, pv \in PageURLs}

JsonBodies == {JsonMarshal(d) : d \in JsonDocs} \cup {<<>>, <<"{">>}

BodiesOf(g) == IF g = Legacy THEN XmlBodies ELSE JsonBodies

FailPoints(b) == {NoFail, 0, Len(b)}

(***************************************************************************)
(* State: one call at a time goes through the pipeline.                     *)
(***************************************************************************)
VARIABLES
  pc,             \* "idle", "sent", "received", "returned", "done"
  op,             \* the operation in progress
  gen,            \* the API generation of the operation
  req,            \* the request NewRequest built
  hasV,           \* whether the result target handed to Do is non-nil
  target,         \* the result target
  transportCalls, \* number of times c.client.Do(req) was invoked in this call
  delivered,      \* whether the transport returned a response
  status,         \* resp.StatusCode
  body,           \* the bytes of resp.Body
  failAt,         \* number of bytes after which reading resp.Body fails, or NoFail
  consumed,       \* number of bytes read from resp.Body
  streamEnd,      \* "open", or how reading ended: "eof", "failed"
  closeCount,     \* number of resp.Body.Close() calls
  decoderCalls,   \* number of times the payload decoder was invoked
  decoderInput,   \* the bytes the parser was handed
  decoderCause,   \* the parse error of the decoder, NoErr when none
  doRet,          \* what Do returned: [resp, err]
  ret,            \* what the operation returned: [result, resp, err]
  applied,        \* SpecRewrite: number of applications of the rewrite
  arg,            \* SpecRewrite, SpecOffset: the input
  prev,           \* SpecRewrite: the bytes before the last application
  cur,            \* SpecRewrite: the bytes after the last application
  out,            \* SpecOffset: what parseOffset returned
  args,           \* what the caller passed to the operation in progress
  UserAgent,      \* Client.UserAgent
  Username,       \* Client.Username
  Password,       \* Client.Password
  SearchEndpoint, \* AnimeService.SearchEndpoint: [Path, RawQuery]
  lastSet,        \* SpecClient: the arguments of the most recent setter calls
  builtWith,      \* SpecClient: lastSet as it was when req was built
  payload,        \* SpecEntry: the entry handed to the encoder
  wire,           \* SpecEntry: the request body the encoder produced
  decoded,        \* SpecEntry: what decoding the body gave: [err, entry]
  values,         \* SpecOptions: the url.Values the options are applied to
  history,        \* SpecOptions: the options applied so far, oldest first
  cpc,            \* SpecConc: where each Search call stands
  cquery,         \* SpecConc: the query each Search call was given
  cvals,          \* SpecConc: the local v of each Search call
  csent           \* SpecConc: the URL each Search call sent its request to

callVars == <<pc, op, gen, req, hasV, target, transportCalls, delivered, status, body,
              failAt, consumed, streamEnd, closeCount, decoderCalls, decoderInput,
              decoderCause, doRet, ret, args>>
configVars == <<UserAgent, Username, Password>>
clientVars == <<configVars, SearchEndpoint>>
pureVars == <<applied, arg, prev, cur, out>>
ghostVars == <<lastSet, builtWith>>
entryVars == <<payload, wire, decoded>>
optionVars == <<values, history>>
concVars == <<cpc, cquery, cvals, csent>>
fnVars == <<pureVars, ghostVars, entryVars, optionVars, concVars>>
vars == <<callVars, clientVars, fnVars>>

\* the client as NewRequest reads it
Client == [UserAgent |-> UserAgent, Username |-> Username, Password |-> Password]

\* before: the raw query the search endpoint held when Search was called
NoArgs ==
  [resource |-> "", id |-> 0, endpoint |-> <<>>, entry |-> NoEntry, query |-> <<>>,
   before |-> <<>>]

NoDo == [resp |-> NilResp, err |-> NilErr]
NoReturn == Return(NoResult, NilResp, NilErr)
NoOut == [n |-> 0, err |-> NoErr]

Idle ==
  /\ pc = "idle" /\ op = "" /\ gen = Legacy /\ req = NoReq /\ hasV = FALSE
  /\ target = ZeroTarget /\ transportCalls = 0 /\ delivered = FALSE /\ status = 0
  /\ body = <<>> /\ failAt = NoFail /\ consumed = 0 /\ streamEnd = "open"
  /\ closeCount = 0 /\ decoderCalls = 0 /\ decoderInput = <<>> /\ decoderCause = NoErr
  /\ doRet = NoDo /\ ret = NoReturn /\ args = NoArgs

ClientInit ==
  /\ UserAgent = NewClient.UserAgent /\ Username = NewClient.Username
  /\ Password = NewClient.Password /\ SearchEndpoint = NewSearchEndpoint

Procs == {1, 2}
NoDecoded == [err |-> NoErr, entry |-> NoEntry]

PureIdle == applied = 0 /\ arg = <<>> /\ prev = <<>> /\ cur = <<>> /\ out = NoOut
GhostIdle == lastSet = NewClient /\ builtWith = NewClient
EntryIdle == payload = NoEntry /\ wire = <<>> /\ decoded = NoDecoded
OptionIdle == values = EmptyValues /\ history = <<>>
ConcIdle ==
  /\ cpc = [p \in Procs |-> "idle"] /\ cquery = [p \in Procs |-> <<>>]
  /\ cvals = [p \in Procs |-> EmptyValues] /\ csent = [p \in Procs |-> <<>>]

FnIdle == PureIdle /\ GhostIdle /\ EntryIdle /\ OptionIdle /\ ConcIdle

Init == Idle /\ ClientInit /\ FnIdle

\* an operation called with arguments a hands the request b.req it built to
\* Do with target v; when the request builder fails it returns without
\* calling Do
Begin(o, g, b, v, a) ==
  /\ pc = "idle"
  /\ op' = o /\ gen' = g /\ hasV' = v /\ args' = a
  /\ IF b.err # NilErr
     THEN /\ pc' = "done" /\ req' = NoReq
          /\ ret' = Return(NoResult, NilResp, b.err)
     ELSE /\ pc' = "sent" /\ req' = b.req
          /\ ret' = ret
  /\ UNCHANGED <<target, transportCalls, delivered, status, body, failAt, consumed,
                 streamEnd, closeCount, decoderCalls, decoderInput, decoderCause, doRet>>
  /\ UNCHANGED configVars
  /\ UNCHANGED fnVars

\* a caller of the package builds a request with Client.NewRequest and
\* calls Client.Do with it
CallDo ==
  \E m \in {"GET", "POST"}, v \in BOOLEAN, e \in {deleteAnimeURL, BadEndpoint},
     entry \in {NoEntry, EntryWith("Status", <<"watching">>)} :
    /\ Begin("Do", Legacy, NewRequest(Client, m, legacyURL(e, 55), entry), v,
             [NoArgs EXCEPT !.id = 55, !.endpoint = e, !.entry = entry])
    /\ UNCHANGED SearchEndpoint

\* AnimeService.Add -> Client.post, and its MangaService counterpart
CallAdd ==
  \E T \in Resources, id \in Ids, entry \in Entries :
    \E e \in {Endpoint(T, "add"), BadEndpoint} :
      /\ Begin("Add", Legacy, postRequest(Client, e, id, entry), FALSE,
               [NoArgs EXCEPT !.resource = T, !.id = id, !.endpoint = e, !.entry = entry])
      /\ UNCHANGED SearchEndpoint

\* AnimeService.Update -> Client.post, and its MangaService counterpart
CallUpdate ==
  \E T \in Resources, id \in Ids, entry \in Entries :
    \E e \in {Endpoint(T, "update"), BadEndpoint} :
      /\ Begin("Update", Legacy, postRequest(Client, e, id, entry), FALSE,
               [NoArgs EXCEPT !.resource = T, !.id = id, !.endpoint = e, !.entry = entry])
      /\ UNCHANGED SearchEndpoint

\* AnimeService.Delete -> Client.delete, and its MangaService counterpart
CallDelete ==
  \E T \in Resources, id \in Ids :
    \E e \in {Endpoint(T, "delete"), BadEndpoint} :
      /\ Begin("Delete", Legacy, deleteRequest(Client, e, id), FALSE,
               [NoArgs EXCEPT !.resource = T, !.id = id, !.endpoint = e])
      /\ UNCHANGED SearchEndpoint

\* AnimeService.Search: the query is set on the service's search endpoint,
\* which keeps it, and the request goes to the endpoint's URL
CallSearch ==
  \E q \in Queries :
    LET endpoint == [SearchEndpoint EXCEPT
                       !.RawQuery = ValuesEncode(SearchValues(SearchEndpoint.RawQuery, q))]
    IN /\ SearchEndpoint' = endpoint
       /\ Begin("Search", Legacy, NewRequest(Client, "GET", URLString(endpoint), NoEntry), TRUE,
                [NoArgs EXCEPT !.query = q, !.before = SearchEndpoint.RawQuery])

\* AnimeService.List
CallList ==
  \E q \in Queries, l \in Limits :
    /\ Begin("List", Current, NewRequest(Client, "GET", listURL(q, l, 0), NoEntry), TRUE,
             [NoArgs EXCEPT !.query = q])
    /\ UNCHANGED SearchEndpoint

\* AnimeService.Details
CallDetails ==
  \E id \in Ids :
    /\ Begin("Details", Current, NewRequest(Client, "GET", detailsURL(id), NoEntry), TRUE,
             [NoArgs EXCEPT !.id = id])
    /\ UNCHANGED SearchEndpoint

\* UserService.MangaList
CallMangaList ==
  \E u \in Usernames :
    /\ Begin("MangaList", Current, NewRequest(Client, "GET", mangaListURL(u), NoEntry), TRUE,
             NoArgs)
    /\ UNCHANGED SearchEndpoint

\* MangaService.UpdateMyListStatus
CallUpdateMyListStatus ==
  \E id \in Ids :
    /\ Begin("UpdateMyListStatus", Current,
             NewRequest(Client, "PATCH", myListStatusURL(id), NoEntry), TRUE,
             [NoArgs EXCEPT !.id = id])
    /\ UNCHANGED SearchEndpoint

\* MangaService.DeleteMyListItem
CallDeleteMyListItem ==
  \E id \in Ids :
    /\ Begin("DeleteMyListItem", Current,
             NewRequest(Client, "DELETE", myListStatusURL(id), NoEntry), FALSE,
             [NoArgs EXCEPT !.id = id])
    /\ UNCHANGED SearchEndpoint

PcRetryOnTransportError == "sent"

\* resp, err := c.client.Do(req); if err != nil { return nil, err }
PcOnTransportError == "returned"

\* the transport fails: Do returns nil and the error
RoundTripError ==
  /\ pc = "sent"
  /\ transportCalls' = transportCalls + 1
  /\ delivered' = FALSE
  /\ doRet' = [resp |-> NilResp, err |-> ErrTransport]
  /\ pc' = PcOnTransportError
  /\ UNCHANGED <<op, gen, req, hasV, target, status, body, failAt, consumed, streamEnd,
                 closeCount, decoderCalls, decoderInput, decoderCause, ret>>
  /\ UNCHANGED <<args, clientVars>>
  /\ UNCHANGED fnVars

\* the transport returns a response whose body is still to be read
RoundTripResponse ==
  /\ pc = "sent"
  /\ \E code \in StatusCodes, b \in BodiesOf(gen) :
       \E f \in FailPoints(b) :
         /\ status' = code /\ body' = b /\ failAt' = f
  /\ transportCalls' = transportCalls + 1
  /\ delivered' = TRUE
  /\ pc' = "received"
  /\ UNCHANGED <<op, gen, req, hasV, target, consumed, streamEnd, closeCount,
                 decoderCalls, decoderInput, decoderCause, doRet, ret>>
  /\ UNCHANGED <<args, clientVars>>
  /\ UNCHANGED fnVars

\* the rest of Client.Do: readResponse, the decoder, the deferred Close
DoReturn ==
  /\ pc = "received"
  /\ LET d == Do(req, hasV, gen, status, body, failAt)
         rd == ReadAll(body, failAt)
     IN /\ consumed' = rd.n
        /\ streamEnd' = rd.end
        /\ doRet' = [resp |-> d.resp, err |-> d.err]
        /\ decoderCalls' = IF d.dec.called THEN decoderCalls + 1 ELSE decoderCalls
        /\ decoderInput' = d.dec.input
        /\ decoderCause' = d.dec.cause
        /\ target' = IF d.dec.called /\ ~d.dec.failed THEN d.dec.val ELSE target
  /\ closeCount' = BodyClose(closeCount)
  /\ pc' = "returned"
  /\ UNCHANGED <<op, gen, req, hasV, transportCalls, delivered, status, body, failAt, ret>>
  /\ UNCHANGED <<args, clientVars>>
  /\ UNCHANGED fnVars

\* the operation shapes what Do returned into its own return values
OpResult(o, do, t) ==
  CASE o = "Do" -> Return(NoResult, do.resp, do.err)
    [] o \in {"Add", "Update"} -> post(do)
    [] o = "Delete" -> delete(do)
    [] o = "Search" -> Search(do, t)
    [] o = "List" -> List(do, t)
    [] o = "Details" -> Details(do, t)
    [] o = "MangaList" -> MangaList(do, t)
    [] o = "UpdateMyListStatus" -> UpdateMyListStatus(do, t)
    [] o = "DeleteMyListItem" -> DeleteMyListItem(do)

OpReturn ==
  /\ pc = "returned"
  /\ ret' = OpResult(op, doRet, target)
  /\ pc' = "done"
  /\ UNCHANGED <<op, gen, req, hasV, target, transportCalls, delivered, status, body,
                 failAt, consumed, streamEnd, closeCount, decoderCalls, decoderInput,
                 decoderCause, doRet>>
  /\ UNCHANGED <<args, clientVars>>
  /\ UNCHANGED fnVars

\* the caller is done with the return values; the next call starts afresh
NextCall ==
  /\ pc = "done"
  /\ pc' = "idle" /\ op' = "" /\ gen' = Legacy /\ req' = NoReq /\ hasV' = FALSE
  /\ target' = ZeroTarget /\ transportCalls' = 0 /\ delivered' = FALSE /\ status' = 0
  /\ body' = <<>> /\ failAt' = NoFail /\ consumed' = 0 /\ streamEnd' = "open"
  /\ closeCount' = 0 /\ decoderCalls' = 0 /\ decoderInput' = <<>> /\ decoderCause' = NoErr
  /\ doRet' = NoDo /\ ret' = NoReturn
  /\ args' = NoArgs
  /\ UNCHANGED clientVars
  /\ UNCHANGED fnVars

Next ==
  \/ CallDo \/ CallAdd \/ CallUpdate \/ CallDelete \/ CallSearch
  \/ CallList \/ CallDetails \/ CallMangaList
  \/ CallUpdateMyListStatus \/ CallDeleteMyListItem
  \/ RoundTripError \/ RoundTripResponse \/ DoReturn \/ OpReturn \/ NextCall

Spec == Init /\ [][Next]_vars

(***************************************************************************)
(* SpecClient: the setters of the client and the request builder, called    *)
(* in any order.  req is the request the latest NewRequest call returned.   *)
(***************************************************************************)
UserAgents == {"", "TestAgent", defaultUserAgent}
Names == {"", "TestUser"}
Passwords == {"", "TestPass"}

\* Client.SetCredentials
SetCredentials(username, password) ==
  /\ Username' = username
  /\ Password' = password
  /\ lastSet' = [lastSet EXCEPT !.Username = username, !.Password = password]
  /\ UNCHANGED <<UserAgent, SearchEndpoint, builtWith>>
  /\ UNCHANGED <<callVars, pureVars, entryVars, optionVars, concVars>>

\* Client.SetUserAgent
SetUserAgent(userAgent) ==
  /\ UserAgent' = userAgent
  /\ lastSet' = [lastSet EXCEPT !.UserAgent = userAgent]
  /\ UNCHANGED <<Username, Password, SearchEndpoint, builtWith>>
  /\ UNCHANGED <<callVars, pureVars, entryVars, optionVars, concVars>>

\* a caller of the package calls Client.NewRequest
CallNewRequest ==
  \E m \in {"GET", "POST"}, e \in {deleteAnimeURL, BadEndpoint},
     entry \in {NoEntry, EntryWith("Status", <<"watching">>)} :
    /\ req' = NewRequest(Client, m, legacyURL(e, 55), entry).req
    /\ builtWith' = lastSet
    /\ UNCHANGED <<pc, op, gen, hasV, target, transportCalls, delivered, status, body,
                   failAt, consumed, streamEnd, closeCount, decoderCalls, decoderInput,
                   decoderCause, doRet, ret, args>>
    /\ UNCHANGED <<clientVars, lastSet, pureVars, entryVars, optionVars, concVars>>

NextClient ==
  \/ \E u \in Names, p \in Passwords : SetCredentials(u, p)
  \/ \E ua \in UserAgents : SetUserAgent(ua)
  \/ CallNewRequest

SpecClient == Init /\ [][NextClient]_vars

(***************************************************************************)
(* SpecConc: two goroutines call AnimeService.Search on the same service.   *)
(* The statements of Search that touch s.SearchEndpoint are steps of their  *)
(* own, so the calls interleave as unsynchronised goroutines do: a read of  *)
(* s.SearchEndpoint sees what the latest write of either call left there.   *)
(***************************************************************************)
\* v := s.SearchEndpoint.Query(); v.Set("q", query)
SearchSetQuery(p) ==
  /\ cpc[p] = "idle"
  /\ \E q \in Queries :
       /\ cquery' = [cquery EXCEPT ![p] = q]
       /\ cvals' = [cvals EXCEPT ![p] = SearchValues(SearchEndpoint.RawQuery, q)]
  /\ csent' = [csent EXCEPT ![p] = <<>>]
  /\ cpc' = [cpc EXCEPT ![p] = "set"]
  /\ UNCHANGED <<callVars, clientVars, pureVars, ghostVars, entryVars, optionVars>>

\* s.SearchEndpoint.RawQuery = v.Encode()
SearchStoreRawQuery(p) ==
  /\ cpc[p] = "set"
  /\ SearchEndpoint' = [SearchEndpoint EXCEPT !.RawQuery = ValuesEncode(cvals[p])]
  /\ cpc' = [cpc EXCEPT ![p] = "stored"]
  /\ UNCHANGED <<cquery, cvals, csent>>
  /\ UNCHANGED <<callVars, configVars, pureVars, ghostVars, entryVars, optionVars>>

\* s.client.get(s.SearchEndpoint.String(), result, true): the request goes
\* to the URL the endpoint holds at this moment
SearchGet(p) ==
  /\ cpc[p] = "stored"
  /\ csent' = [csent EXCEPT ![p] = NewRequest(Client, "GET", URLString(SearchEndpoint), NoEntry).req.url]
  /\ cpc' = [cpc EXCEPT ![p] = "sent"]
  /\ UNCHANGED <<cquery, cvals>>
  /\ UNCHANGED <<callVars, clientVars, pureVars, ghostVars, entryVars, optionVars>>

\* the call returns; the goroutine may call Search again
SearchReturn(p) ==
  /\ cpc[p] = "sent"
  /\ cpc' = [cpc EXCEPT ![p] = "idle"]
  /\ UNCHANGED <<cquery, cvals, csent>>
  /\ UNCHANGED <<callVars, clientVars, pureVars, ghostVars, entryVars, optionVars>>

NextConc ==
  \E p \in Procs :
    \/ SearchSetQuery(p) \/ SearchStoreRawQuery(p) \/ SearchGet(p) \/ SearchReturn(p)

SpecConc == Init /\ [][NextConc]_vars

(***************************************************************************)
(* SpecEntry: an entry with up to MaxSet fields set is encoded as the       *)
(* legacy request body, and the body is decoded back.                       *)
(***************************************************************************)
IntValues == <<7, -1>>
StringValues ==
  << <<"watching">>, <<"a", "<", "b", ">", "c">>, <<"x", "&", "y", " ", "z">>,
     <<"1", "+", "1", "=", "2", ";">> >>
FieldValues(k) == IF FieldOf(k).kind = "int" THEN IntValues ELSE StringValues

\* the entries with the fields ks set, each to one of its values
EntriesSetting(ks) ==
  { [k \in EntryKeys |-> IF k \in ks THEN FieldValues(k)[f[k]] ELSE ZeroEntry[k]] :
      f \in {g \in [ks -> 1..Len(StringValues)] : \A k \in ks : g[k] <= Len(FieldValues(k))} }

EntryInputs ==
  UNION {EntriesSetting(ks) : ks \in {x \in SUBSET EntryKeys : Cardinality(x) <= MaxSet}}

InitEntry ==
  /\ Idle /\ ClientInit /\ GhostIdle /\ OptionIdle /\ ConcIdle
  /\ applied = 0 /\ arg = <<>> /\ prev = <<>> /\ cur = <<>> /\ out = NoOut
  /\ payload \in EntryInputs /\ wire = <<>> /\ decoded = NoDecoded

\* the body NewRequest writes for the entry
EncodeEntry ==
  /\ applied = 0
  /\ applied' = 1
  /\ wire' = FormEncode(payload)
  /\ UNCHANGED <<payload, decoded, arg, prev, cur, out>>
  /\ UNCHANGED <<callVars, clientVars, ghostVars, optionVars, concVars>>

\* the receiver decodes the body
DecodeEntry ==
  /\ applied = 1
  /\ applied' = 2
  /\ decoded' = DecodeBody(wire)
  /\ UNCHANGED <<payload, wire, arg, prev, cur, out>>
  /\ UNCHANGED <<callVars, clientVars, ghostVars, optionVars, concVars>>

NextEntry == EncodeEntry \/ DecodeEntry

SpecEntry == InitEntry /\ [][NextEntry]_vars

(***************************************************************************)
(* SpecOptions: up to MaxOptions options applied one after the other to a   *)
(* url.Values that starts empty, as the loop over the options does.         *)
(***************************************************************************)
Option(type, val) == [type |-> type, val |-> val]
\* the options a caller picks from, two values of each type
Options ==
  << Option("MangaStatus", "reading"), Option("MangaStatus", "plan_to_read"),
     Option("IsRereading", TRUE), Option("IsRereading", FALSE),
     Option("NumVolumesRead", 0), Option("NumVolumesRead", 12),
     Option("NumChaptersRead", 0), Option("NumChaptersRead", 12),
     Option("NumTimesReread", 0), Option("NumTimesReread", 12),
     Option("RereadValue", 0), Option("RereadValue", 5) >>

\* for _, o := range options { o.updateMyMangaListStatusApply(v) }, one turn
ApplyNextOption ==
  /\ Len(history) < MaxOptions
  /\ \E i \in 1..Len(Options) :
       /\ values' = ApplyOption(Options[i], values)
       /\ history' = Append(history, Options[i])
  /\ UNCHANGED <<callVars, clientVars, pureVars, ghostVars, entryVars, concVars>>

NextOptions == ApplyNextOption

SpecOptions == Init /\ [][NextOptions]_vars

(***************************************************************************)
(* SpecRewrite: the rewrite applied again and again to a body put together  *)
(* from pieces of the texts it looks for.                                   *)
(***************************************************************************)
RewritePieces ==
  { Bull, <<"A">>, <<"&">>, <<"&", "b", "u">>, <<"l", "l", ";">>,
    <<"b", "u", "l", "l", ";">>, CDataOpen, CDataClose }

RewriteInputs == {Concat(ps) : ps \in SeqsUpTo(RewritePieces, MaxParts)}

InitRewrite ==
  /\ Idle /\ ClientInit /\ GhostIdle /\ EntryIdle /\ OptionIdle /\ ConcIdle
  /\ applied = 0 /\ arg \in RewriteInputs /\ prev = arg /\ cur = arg /\ out = NoOut

ApplyRewrite ==
  /\ applied < MaxApply
  /\ applied' = applied + 1
  /\ prev' = cur
  /\ cur' = Rewrite(cur)
  /\ UNCHANGED <<arg, out>>
  /\ UNCHANGED <<callVars, clientVars, ghostVars, entryVars, optionVars, concVars>>

NextRewrite == ApplyRewrite

SpecRewrite == InitRewrite /\ [][NextRewrite]_vars

(***************************************************************************)
(* SpecOffset: parseOffset applied to a page URL put together from pieces.  *)
(***************************************************************************)
OffsetPieces ==
  { <<"offset", "=">>, <<"offset">>, <<"limit", "=", "5">>, <<"&">>, <<"=">>, <<"?">>,
    <<"1">>, <<"2">>, <<"0">>, <<"x">>, <<"-">>, <<"+">>,
    <<Escaped1>>, <<BadEscape>>, <<Ctl>> }

OffsetPrefixes ==
  { <<PageBase>>, <<PageBase, "?">>, <<PageBase, "?", "limit", "=", "5", "&">> }

OffsetInputs ==
  {pre \o Concat(ps) : pre \in OffsetPrefixes, ps \in SeqsUpTo(OffsetPieces, MaxPieces)}

InitOffset ==
  /\ Idle /\ ClientInit /\ GhostIdle /\ EntryIdle /\ OptionIdle /\ ConcIdle
  /\ applied = 0 /\ arg \in OffsetInputs /\ prev = <<>> /\ cur = <<>> /\ out = NoOut

ApplyParseOffset ==
  /\ applied = 0
  /\ applied' = 1
  /\ out' = parseOffset(arg)
  /\ UNCHANGED <<arg, prev, cur>>
  /\ UNCHANGED <<callVars, clientVars, ghostVars, entryVars, optionVars, concVars>>

NextOffset == ApplyParseOffset

SpecOffset == InitOffset /\ [][NextOffset]_vars

(***************************************************************************)
(* Properties.                                                              *)
(***************************************************************************)
Success == 200..299
DoHasReturned == pc \in {"returned", "done"} /\ req # NoReq
ResponseDelivered == DoHasReturned /\ delivered

\* C1 (as stated): for every status code the transport returns, Do returns a
\* RequestFailed error if and only if the code is outside [200,299], and the
\* error carries the request method, the resolved URL, the status code and
\* the body text unmodified.
C1_RequestFailedIffNon2xx ==
  ResponseDelivered =>
    /\ (doRet.err.class = "RequestFailed") <=> (status \notin Success)
    /\ doRet.err.class = "RequestFailed" =>
         /\ doRet.err.method = req.method
         /\ doRet.err.url = req.url
         /\ doRet.err.status = status
         /\ doRet.err.text = body

\* C1 (amended): when the body of the response is read without error, Do
\* returns a RequestFailed error if and only if the status code is outside
\* [200,299], carrying the request method, the resolved URL, the status code
\* and the body text unmodified; when reading the body fails, Do returns the
\* read error whatever the status code is.
C1_RequestFailedIffNon2xxWhenBodyRead ==
  ResponseDelivered =>
    /\ failAt = NoFail =>
         /\ (doRet.err.class = "RequestFailed") <=> (status \notin Success)
         /\ doRet.err.class = "RequestFailed" =>
              /\ doRet.err.method = req.method
              /\ doRet.err.url = req.url
              /\ doRet.err.status = status
              /\ doRet.err.text = body
    /\ failAt # NoFail => doRet.err.class = "cannot read response body"

C1_Witness ==
  /\ pc = "returned" /\ delivered /\ failAt = NoFail
  /\ status = 300 /\ body = Deleted
  /\ doRet.err = ErrRequestFailed(req, 300, Deleted)
  /\ req.method = "DELETE" /\ req.url = deleteAnimeURL \o <<"5", "5", ".xml">>

\* C2: whenever the transport delivered a response and the call ends in a
\* non-2xx or decode error, the operation returns a non-nil Response with
\* the status and the raw body next to the error.
C2_ResponseReturnedWithError ==
  (pc = "done" /\ delivered /\ ret.err.class \in {"RequestFailed", "cannot decode"}) =>
    /\ ~ret.resp.nil
    /\ ret.resp.StatusCode = status
    /\ ret.resp.Body = body

\* C3: an operation invokes the transport at most once, and a call of Do
\* invokes it exactly once whatever the outcome; a failed request is not
\* sent again.
C3_TransportInvokedOnce ==
  /\ transportCalls \in {0, 1}
  /\ pc \in {"idle", "sent"} => transportCalls = 0
  /\ pc \in {"received", "returned"} => transportCalls = 1
  /\ pc = "done" => transportCalls = (IF req = NoReq THEN 0 ELSE 1)

C3_Witness ==
  /\ pc = "done" /\ op = "Search" /\ transportCalls = 1
  /\ ret.err.class = "TransportError"

\* C4: on every path of Do on which the transport returned a response, the
\* body has been read to the end of the stream (its EOF, or the read error
\* that ends it) and closed exactly once when Do returns; it is not closed
\* before, nor when there is no response.
C4_BodyDrainedAndClosedOnce ==
  /\ ResponseDelivered =>
       /\ closeCount = 1
       /\ streamEnd = (IF failAt = NoFail THEN "eof" ELSE "failed")
       /\ consumed = (IF failAt = NoFail THEN Len(body) ELSE failAt)
  /\ ~ResponseDelivered => closeCount = 0 /\ streamEnd = "open"

C4_Witness ==
  /\ pc = "returned" /\ delivered /\ status = 404 /\ body = Deleted /\ failAt = NoFail
  /\ consumed = 7 /\ streamEnd = "eof" /\ closeCount = 1
  /\ doRet.err.class = "RequestFailed"

\* C5 (as stated): the &bull; rewrite is idempotent: applying it to its own
\* output changes nothing.
C5_RewriteIdempotent == applied >= 2 => cur = prev

\* C5 (amended): the &bull; rewrite is idempotent exactly on bodies without
\* an occurrence of &bull;: rewrite(rewrite(b)) = rewrite(b) if and only if b
\* has no occurrence; every application keeps the number of occurrences and
\* wraps each of them once more.
C5_RewriteIdempotentIffNoBull ==
  LET n == BytesCount(arg, Bull)
  IN /\ BytesCount(cur, Bull) = n
     /\ Len(cur) = Len(arg) + applied * n * (Len(CDataOpen) + Len(CDataClose))
     /\ applied >= 2 => ((cur = prev) <=> (n = 0))

C5_Witness ==
  /\ applied = 2
  /\ arg = <<"A">> \o Bull
  /\ prev = <<"A">> \o BullCData
  /\ cur = <<"A">> \o CDataOpen \o BullCData \o CDataClose

\* the wrapped form put back to the entity
Unwrap(s) == BytesReplace(s, BullCData, Bull, -1)

\* C6: the rewrite is scoped: a body without &bull; reaches the XML parser
\* unchanged; otherwise every occurrence is replaced by its CDATA-wrapped
\* form and all other bytes keep their value and order; the Response.Body
\* that Do returns is the raw body.
C6_RewriteScoped ==
  (DoHasReturned /\ decoderCalls > 0 /\ gen = Legacy) =>
    /\ BytesCount(body, Bull) = 0 => decoderInput = body
    /\ Unwrap(decoderInput) = body
    /\ BytesCount(decoderInput, BullCData) = BytesCount(body, Bull)
    /\ Len(decoderInput) =
         Len(body) + BytesCount(body, Bull) * (Len(CDataOpen) + Len(CDataClose))
    /\ doRet.resp.Body = body

C6_Witness ==
  /\ pc = "returned" /\ decoderCalls = 1
  /\ body = OpenTag \o Bull \o Bull \o CloseTag
  /\ decoderInput = OpenTag \o BullCData \o BullCData \o CloseTag
  /\ doRet.resp.Body = body
  /\ target.xml = Bull \o Bull

\* C7 (as stated): Do invokes the payload decoder if and only if the status
\* is in [200,299] and the target is non-nil; with a nil target a 2xx
\* response with any body yields no error; on a non-2xx status the target is
\* left unmodified.
C7_DecoderIffSuccessAndTarget ==
  ResponseDelivered =>
    /\ (decoderCalls = 1) <=> (status \in Success /\ hasV)
    /\ decoderCalls \in {0, 1}
    /\ (status \in Success /\ ~hasV) => doRet.err = NilErr
    /\ status \notin Success => target = ZeroTarget

\* C7 (amended): Do invokes the payload decoder if and only if the body was
\* read without error, the status is in [200,299] and the target is non-nil;
\* with a nil target a 2xx response whose body was read, whatever the body
\* is, yields no error; on a non-2xx status or a failed read the target is
\* left unmodified.
C7_DecoderIffReadSuccessAndTarget ==
  ResponseDelivered =>
    /\ (decoderCalls = 1) <=> (failAt = NoFail /\ status \in Success /\ hasV)
    /\ decoderCalls \in {0, 1}
    /\ (failAt = NoFail /\ status \in Success /\ ~hasV) => doRet.err = NilErr
    /\ (status \notin Success \/ failAt # NoFail) => target = ZeroTarget

C7_Witness ==
  /\ pc = "returned" /\ op = "Delete" /\ ~hasV
  /\ status = 200 /\ body = Deleted /\ failAt = NoFail
  /\ decoderCalls = 0 /\ doRet.err = NilErr /\ ~doRet.resp.nil

\* C8: whenever a 2xx body cannot be decoded into a non-nil target, Do
\* returns the "cannot decode" error made from the parse error; a failure
\* of the decoder never ends with a nil error.
C8_DecodeFailureReturned ==
  /\ (ResponseDelivered /\ failAt = NoFail /\ status \in Success /\ hasV
        /\ Decode(gen, body).err # NoErr) =>
       /\ doRet.err.class = "cannot decode"
       /\ doRet.err.cause = Decode(gen, body).err
       /\ doRet.err.cause \in {ErrEOF, ErrSyntax, ErrJSON}
  /\ (DoHasReturned /\ decoderCause # NoErr) =>
       /\ doRet.err # NilErr
       /\ doRet.err.cause = decoderCause
  /\ (pc = "done" /\ decoderCause # NoErr) => ret.err # NilErr

C8_Witness ==
  /\ pc = "returned" /\ op = "Search" /\ hasV /\ status = 200 /\ body = Deleted
  /\ decoderCause = ErrEOF
  /\ doRet.err = ErrDecode(ErrEOF)

(***************************************************************************)
(* The page-URL grammar, stated over positions of the URL string: what the  *)
(* offset parameter of a page URL is, independently of how the parsers walk *)
(* the string.                                                              *)
(***************************************************************************)
PageURLParses(u) ==
  /\ \A i \in 1..Len(u) : u[i] # Ctl
  /\ \A i \in 1..Len(u) : u[i] = BadEscape => \E j \in 1..(i - 1) : u[j] = "?"

\* the text after the first "?"
PageQuery(u) ==
  IF \E i \in 1..Len(u) : u[i] = "?"
  THEN LET q == CHOOSE i \in 1..Len(u) : u[i] = "?" /\ \A j \in 1..(i - 1) : u[j] # "?"
       IN SubSeq(u, q + 1, Len(u))
  ELSE <<>>

\* q[i..j] is a parameter "offset" or "offset=value" between separators
IsOffsetParam(q, i, j) ==
  /\ 1 <= i /\ i <= j /\ j <= Len(q)
  /\ i = 1 \/ q[i - 1] = "&"
  /\ j = Len(q) \/ q[j + 1] = "&"
  /\ \A k \in i..j : q[k] \notin {"&", BadEscape}
  /\ q[i] = "offset"
  /\ i = j \/ q[i + 1] = "="

HasOffsetParam(q) == \E i, j \in 1..Len(q) : IsOffsetParam(q, i, j)

\* the unescaped value of the first offset parameter
FirstOffsetValue(q) ==
  LET i == CHOOSE i \in 1..Len(q) :
             /\ \E j \in 1..Len(q) : IsOffsetParam(q, i, j)
             /\ \A i2 \in 1..(i - 1) : ~\E j2 \in 1..Len(q) : IsOffsetParam(q, i2, j2)
      j == CHOOSE j \in 1..Len(q) : IsOffsetParam(q, i, j)
      raw == SubSeq(q, i + 2, j)
  IN [k \in 1..Len(raw) |->
        IF raw[k] = Escaped1 THEN "1" ELSE IF raw[k] = "+" THEN " " ELSE raw[k]]

Unsigned(w) == IF w # <<>> /\ w[1] \in {"+", "-"} THEN SubSeq(w, 2, Len(w)) ELSE w

IsDecimal(w) == Unsigned(w) # <<>> /\ \A k \in 1..Len(Unsigned(w)) : Unsigned(w)[k] \in DigitSet

RECURSIVE Pow10(_)
Pow10(k) == IF k = 0 THEN 1 ELSE 10 * Pow10(k - 1)

RECURSIVE PlaceSum(_, _)
PlaceSum(ds, k) ==
  IF k > Len(ds) THEN 0 ELSE DigitVal(ds[k]) * Pow10(Len(ds) - k) + PlaceSum(ds, k + 1)

DecimalValue(w) == IF w[1] = "-" THEN 0 - PlaceSum(Unsigned(w), 1) ELSE PlaceSum(Unsigned(w), 1)

HasDecimalOffset(u) ==
  HasOffsetParam(PageQuery(u)) /\ IsDecimal(FirstOffsetValue(PageQuery(u)))

\* what parseOffset is to return for the page URL u
ExpectedOffset(u) ==
  IF ~PageURLParses(u) THEN [n |-> 0, err |-> ErrInvalidPageURL]
  ELSE IF ~HasDecimalOffset(u) THEN [n |-> 0, err |-> ErrInvalidOffset]
  ELSE [n |-> DecimalValue(FirstOffsetValue(PageQuery(u))), err |-> NoErr]

\* C9: parseOffset returns the integer value of the offset parameter of the
\* page URL with a nil error; it fails with the "parsing URL" error when the
\* URL does not parse and with the "parsing offset" error when the parameter
\* is missing or not a number, and then returns no offset.
C9_ParseOffset ==
  applied = 1 =>
    /\ out = ExpectedOffset(arg)
    /\ out.err # NoErr => out.n = 0
    /\ out.err = ErrInvalidPageURL <=> ~PageURLParses(arg)
    /\ out.err = ErrInvalidOffset <=> (PageURLParses(arg) /\ ~HasDecimalOffset(arg))

C9_Witness ==
  /\ applied = 1
  /\ arg = <<PageBase, "?", "limit", "=", "5", "&", "offset", "=", "1", "2">>
  /\ out = [n |-> 12, err |-> NoErr]

\* C10: a successful List returns the nodes of the envelope's data entries
\* in their order and number, and sets Response.NextOffset / PrevOffset to
\* the offset of the paging next / previous URL when that URL is not empty;
\* for an empty paging URL the offset stays unset (zero).
C10_ListFlattensAndSetsOffsets ==
  (pc = "done" /\ op = "List" /\ ret.err = NilErr) =>
    \E d \in JsonDocs :
      /\ body = JsonMarshal(d)
      /\ ~ret.result.nil
      /\ Len(ret.result.items) = Len(d.Data)
      /\ \A i \in 1..Len(d.Data) : ret.result.items[i] = d.Data[i].node
      /\ ~ret.resp.nil
      /\ ret.resp.NextOffset = (IF d.Next = <<>> THEN 0 ELSE ExpectedOffset(d.Next).n)
      /\ ret.resp.PrevOffset = (IF d.Previous = <<>> THEN 0 ELSE ExpectedOffset(d.Previous).n)
      /\ d.Next # <<>> => ExpectedOffset(d.Next).err = NoErr
      /\ d.Previous # <<>> => ExpectedOffset(d.Previous).err = NoErr

C10_Witness ==
  /\ pc = "done" /\ op = "List" /\ ret.err = NilErr
  /\ ret.result.items = <<967, 1356>>
  /\ ret.resp.NextOffset = 12 /\ ret.resp.PrevOffset = 4
  /\ ret.resp.StatusCode = 200

(***************************************************************************)
(* The request as the server reads it.                                      *)
(***************************************************************************)
DataKey == <<"data">>

\* r.FormValue("data") on the server: the first value of the form field
FormValue(rq, key) == ValuesGet(ParseQuery(rq.body), key)

\* the form fields of the body, gathered by key
Form(rq) == ValuesOf(ParseQuery(rq.body), EmptyValues)

RequestBuilt == pc \in {"sent", "received", "returned", "done"} /\ req # NoReq
StatusOnly(e) == e # NoEntry /\ e.Status # <<>> /\ e = EntryWith("Status", e.Status)

\* C11: Add or Update with an entry whose only set field is Status = s sends
\* a form-encoded body whose data field is exactly
\* <entry><status>s</status></entry>; fields left at their zero value emit
\* no XML element.
C11_StatusOnlyData ==
  (RequestBuilt /\ op \in {"Add", "Update"} /\ StatusOnly(args.entry)) =>
    FormValue(req, DataKey) =
      <<"<", "entry", ">", "<", "status", ">">> \o args.entry.Status
      \o <<"<", "/", "status", ">", "<", "/", "entry", ">">>

\* the part of url between a prefix and a suffix: the path segment that
\* holds the identifier
HasShape(url, prefix, suffix) ==
  /\ Len(url) > Len(prefix) + Len(suffix)
  /\ SubSeq(url, 1, Len(prefix)) = prefix
  /\ SubSeq(url, Len(url) - Len(suffix) + 1, Len(url)) = suffix
IdSegment(url, prefix, suffix) == SubSeq(url, Len(prefix) + 1, Len(url) - Len(suffix))

\* url is prefix, then the decimal text of n, then suffix
KeyedBy(url, prefix, n, suffix) ==
  /\ HasShape(url, prefix, suffix)
  /\ IsDecimal(IdSegment(url, prefix, suffix))
  /\ IdSegment(url, prefix, suffix)[1] # "+"
  /\ DecimalValue(IdSegment(url, prefix, suffix)) = n

\* C12: every mutating call with caller-supplied id n sends its request to
\* a path keyed by exactly that id: <operation endpoint>n.xml with method
\* POST for legacy Add/Update and DELETE for legacy Delete, and
\* manga/n/my_list_status with method PATCH for UpdateMyListStatus and
\* DELETE for DeleteMyListItem.
C12_PathKeyedByCallerId ==
  RequestBuilt =>
    /\ op \in {"Add", "Update"} =>
         req.method = "POST" /\ KeyedBy(req.url, args.endpoint, args.id, <<".xml">>)
    /\ op = "Delete" =>
         req.method = "DELETE" /\ KeyedBy(req.url, args.endpoint, args.id, <<".xml">>)
    /\ op = "UpdateMyListStatus" =>
         req.method = "PATCH"
         /\ KeyedBy(req.url, defaultBaseURL \o <<"manga/">>, args.id, <<"/my_list_status">>)
    /\ op = "DeleteMyListItem" =>
         req.method = "DELETE"
         /\ KeyedBy(req.url, defaultBaseURL \o <<"manga/">>, args.id, <<"/my_list_status">>)

\* an Update of entry 967 and no other was sent and has returned
C12_Witness ==
  /\ pc = "done" /\ op = "Update" /\ args.id = 967 /\ transportCalls = 1
  /\ req.url = updateAnimeURL \o <<"9", "6", "7", ".xml">>

\* the word of a legacy list operation in its path
OperationWord(o) == CASE o = "Add" -> "add" [] o = "Update" -> "update" [] o = "Delete" -> "delete"

\* /api/Tlist/<operation>/ under the host
LegacyPath(T, o) == <<Host, "api/", T, "list/", OperationWord(o), "/">>

\* C13: for each resource type T in {anime, manga} and each list operation
\* in {add, update, delete}, the legacy endpoint used is
\* /api/Tlist/<operation>/{id}.xml: a manga operation never targets an
\* anime path and vice versa.
C13_LegacyEndpointOfResource ==
  (RequestBuilt /\ op \in {"Add", "Update", "Delete"}) =>
    KeyedBy(req.url, LegacyPath(args.resource, op), args.id, <<".xml">>)

\* C14: after any sequence of SetCredentials / SetUserAgent calls, a request
\* built by the request builder carries a User-Agent header if and only if
\* the configured user agent is non-empty, and HTTP Basic Authorization if
\* and only if the configured username is non-empty, in both cases with the
\* values of the most recent setter call (builtWith: the setters' arguments
\* as they stood when the request was built); later setter calls do not
\* change a request built earlier.
C14_HeadersFollowConfiguration ==
  req # NoReq =>
    /\ (req.header.UserAgent # <<>>) <=> (builtWith.UserAgent # "")
    /\ req.header.UserAgent # <<>> => req.header.UserAgent = <<builtWith.UserAgent>>
    /\ (req.header.Authorization # <<>>) <=> (builtWith.Username # "")
    /\ req.header.Authorization # <<>> =>
         req.header.Authorization =
           <<[scheme |-> "Basic", username |-> builtWith.Username,
              password |-> builtWith.Password]>>

\* a request built with the test's user agent and credentials, after which
\* the user agent and the credentials were cleared
C14_Witness ==
  /\ req # NoReq
  /\ builtWith = [UserAgent |-> "TestAgent", Username |-> "TestUser", Password |-> "TestPass"]
  /\ UserAgent = "" /\ Username = ""
  /\ req.header.UserAgent = <<"TestAgent">>
  /\ req.header.Authorization # <<>>

\* C15: every request that the request builder constructs with a non-nil
\* payload carries the marshalled XML as the value of the single form field
\* data in a URL-form-encoded body and has the header
\* Content-Type: application/x-www-form-urlencoded.
C15_PayloadIsFormEncoded ==
  (RequestBuilt /\ args.entry # NoEntry) =>
    /\ Form(req) = [k \in {DataKey} |-> <<XmlMarshal(args.entry)>>]
    /\ req.header.ContentType = <<"application/x-www-form-urlencoded">>

\* the query parameters of a URL as the server reads them
URLQuery(u) == ParseQuery(UrlParse(u).RawQuery)

\* C16: when two Search calls run concurrently on the same client, each
\* request that is sent carries the query of the call that issued it; no
\* interleaving makes one call send the other call's query.
C16_RequestCarriesOwnQuery ==
  \A p \in Procs :
    cpc[p] = "sent" => URLQuery(csent[p]) = <<[key |-> QueryKey, val |-> cquery[p]]>>

\* C17: after any sequence of sequential Search calls on the same service,
\* the request sent by a call with query q is a GET whose query string is
\* exactly {q: q}: a single q value, with no value or parameter left over
\* from earlier calls.
C17_SearchSendsExactlyItsQuery ==
  (RequestBuilt /\ op = "Search") =>
    /\ req.method = "GET"
    /\ URLQuery(req.url) = <<[key |-> QueryKey, val |-> args.query]>>

\* a Search for "query" on a service whose endpoint an earlier Search had
\* left with "bebop"
C17_Witness ==
  /\ pc = "done" /\ op = "Search" /\ transportCalls = 1
  /\ args.query = <<"query">>
  /\ args.before = <<"q", "=", "bebop">>
  /\ SearchEndpoint.RawQuery = <<"q", "=", "query">>

\* C18: for every valid entry payload, encoding it as the legacy request
\* body (XML inside the form field data, form-encoded) and then decoding
\* that body back yields an entry equal to the original in every documented
\* field, including fields that hold their zero value.
C18_EntryRoundTrip ==
  applied = 2 /\ payload # NoEntry =>
    /\ decoded.err = NoErr
    /\ \A k \in EntryKeys : decoded.entry[k] = payload[k]

\* an entry with comments that need escaping twice over and a negative
\* score, every other field zero, has made the round trip
C18_Witness ==
  /\ applied = 2
  /\ payload = [ZeroEntry EXCEPT !["Comments"] = <<"x", "&", "y", " ", "z">>, !["Score"] = -1]
  /\ decoded.entry = payload

TypedResultOps == {"MangaList", "UpdateMyListStatus", "Details", "List", "Search"}

\* C19: every service method that returns a typed result (MangaList,
\* UpdateMyListStatus, Details, List, Search) returns a nil result whenever
\* it returns a non-nil error, including List when the response decoded
\* successfully but a paging URL has an invalid offset; a non-nil result is
\* only ever returned together with a nil error.
C19_NilResultWithError ==
  (pc = "done" /\ op \in TypedResultOps) =>
    /\ ret.err # NilErr => ret.result.nil
    /\ ~ret.result.nil => ret.err = NilErr

\* List decoded its response and then failed on the offset of a paging URL
C19_Witness ==
  /\ pc = "done" /\ op = "List"
  /\ decoderCalls = 1 /\ decoderCause = NoErr /\ doRet.err = NilErr
  /\ target.json.Data # <<>>
  /\ ret.err.class = ErrInvalidOffset
  /\ ret.result.nil /\ ~ret.resp.nil

\* the query parameter each option type stands for
OptionKey(type) ==
  CASE type = "MangaStatus" -> <<"status">>
    [] type = "IsRereading" -> <<"is_rereading">>
    [] type = "NumVolumesRead" -> <<"num_volumes_read">>
    [] type = "NumChaptersRead" -> <<"num_chapters_read">>
    [] type = "NumTimesReread" -> <<"num_times_reread">>
    [] type = "RereadValue" -> <<"reread_value">>

OptionTypes == {"MangaStatus", "IsRereading", "NumVolumesRead", "NumChaptersRead",
                "NumTimesReread", "RereadValue"}

\* text is how the value of option o reads as a query parameter
Renders(text, o) ==
  CASE o.type = "MangaStatus" -> text = <<o.val>>
    [] o.type = "IsRereading" -> text = (IF o.val THEN <<"true">> ELSE <<"false">>)
    [] OTHER -> IsDecimal(text) /\ text[1] # "+" /\ DecimalValue(text) = o.val

\* the positions in the history of the options of a type
Supplied(type) == {i \in 1..Len(history) : history[i].type = type}
LastSupplied(type) == history[CHOOSE i \in Supplied(type) : \A j \in Supplied(type) : j <= i]

\* what the values hold under a key: the list of values, empty when the key
\* is absent
Held(v, key) == IF key \in DOMAIN v THEN v[key] ELSE <<>>

\* C20: applying any sequence of list / update options to the
\* query-parameter set leaves exactly one value per option key, equal to
\* the last option supplied for that key; each option writes only its own
\* key and leaves all other keys unchanged, so options with distinct keys
\* commute.
C20_LastOptionPerKey ==
  /\ DOMAIN values = {OptionKey(t) : t \in {u \in OptionTypes : Supplied(u) # {}}}
  /\ \A t \in OptionTypes :
       Supplied(t) # {} =>
         /\ Len(values[OptionKey(t)]) = 1
         /\ Renders(values[OptionKey(t)][1], LastSupplied(t))
  /\ \A i \in 1..Len(Options) : \A t \in OptionTypes :
       t # Options[i].type =>
         Held(ApplyOption(Options[i], values), OptionKey(t)) = Held(values, OptionKey(t))
  /\ \A i \in 1..Len(Options) : \A j \in 1..Len(Options) :
       Options[i].type # Options[j].type =>
         ApplyOption(Options[i], ApplyOption(Options[j], values))
           = ApplyOption(Options[j], ApplyOption(Options[i], values))

\* chapters 0 then 12 and a status in between: the later chapter count is
\* the one held, next to the status
C20_Witness ==
  /\ Len(history) = 3
  /\ history[1].type = "NumChaptersRead" /\ history[1].val = 0
  /\ history[2].type = "MangaStatus" /\ history[2].val = "reading"
  /\ history[3].type = "NumChaptersRead" /\ history[3].val = 12
  /\ values[<<"num_chapters_read">>] = <<<<"1", "2">>>>
  /\ values[<<"status">>] = <<<<"reading">>>>
====
